---- MODULE Spec2Model ----
(***************************************************************************)
(* Model of pde.ProcessDivisionier (src/pde.py): the argument registry     *)
(* (add_args, set_allargs, set_processes, show_args) and run(), which      *)
(* submits one future per registered tuple to a ProcessPoolExecutor,       *)
(* registers the completion callback update() on each future, waits for    *)
(* all futures and leaves the with-block (executor shutdown, wait=True).   *)
(*                                                                         *)
(* Threads of the calling process: the caller's thread ("main") and the    *)
(* executor's manager thread ("mgr"), which marks futures FINISHED and     *)
(* invokes the callbacks registered on them.  A callback added to a future *)
(* that is already FINISHED is invoked at once on the main thread.  Both   *)
(* invocation sites catch Exception raised by the callback and log it.     *)
(* A failing unit raises an instance of Exception (the ValueError of the   *)
(* specification's scenario).                                              *)
(***************************************************************************)
EXTENDS Integers, Sequences, FiniteSets, TLC

\* ------------------------------------------------------------------ bounds
MaxUnits == 2
MaxWorkers == 2
MaxBulk == 2

\* ------------------------------------------------------------ value domain
\* A registered element: a Python tuple of opaque values (the empty tuple and
\* a one-value tuple stand for them), or a non-tuple (a list) as a malformed
\* element of a bulk registration.
Tup(v) == [istuple |-> TRUE, vals |-> v]
Lst(v) == [istuple |-> FALSE, vals |-> v]
ArgVals == {<<>>, <<1>>}
ArgTuples == {Tup(v) : v \in ArgVals}
Elems == ArgTuples \cup {Lst(<<1>>)}
SeqsUpTo(S, n) == UNION {[1..k -> S] : k \in 0..n}
Bulks == SeqsUpTo(Elems, MaxBulk)
Threads == {"main", "mgr"}

VARIABLES
    all_args,        \* self.__all_args
    num_of_process,  \* self.__num_of_process
    pc,              \* position of the caller's thread
    workers,         \* max_workers of the pool of the current run
    pool,            \* "none", "open", "closed": the ProcessPoolExecutor
    mgr,             \* executor manager thread: "none", "idle", "exited"
    shutdown,        \* executor._shutdown_thread
    fs,              \* the futures of the run, in submission order
    resultq,         \* result queue: units whose result awaits the manager
    nreg,            \* number of add_done_callback calls made
    cb,              \* per thread: the update() invocation in progress
    progress,        \* advance events received by the progress bar
    results,         \* the closure's results list (unit indices)
    logged,          \* callback exceptions caught and logged by the library
    done,            \* the units in the order in which they finished
    call,            \* the caller's last call, with the registry before it
                     \* (for a run: when no override replaces the registry)
    outcome          \* how the last call ended

regvars == <<all_args, num_of_process>>
runvars == <<pc, workers, pool, mgr, shutdown, fs, resultq, nreg, cb,
             progress, results, logged, done>>
vars == <<all_args, num_of_process, pc, workers, pool, mgr, shutdown,
          fs, resultq, nreg, cb, progress, results, logged, done, call,
          outcome>>

NoCb == [unit |-> 0, stage |-> "none"]
NoCall == [op |-> "none", pre |-> <<>>, prenum |-> 1, vals |-> <<>>,
           bulk |-> <<>>, mode |-> "-", n |-> 0, override |-> FALSE]
Pending == [kind |-> "pending", exc |-> "none", value |-> <<>>]
Returned(v) == [kind |-> "returned", exc |-> "none", value |-> v]
Raised(e) == [kind |-> "raised", exc |-> e, value |-> <<>>]

\* The locals of run() and the executor, as they are when no run is active.
LocalsReset ==
    /\ pool' = "none"
    /\ mgr' = "none"
    /\ shutdown' = FALSE
    /\ fs' = <<>>
    /\ resultq' = <<>>
    /\ nreg' = 0
    /\ cb' = [t \in Threads |-> NoCb]
    /\ progress' = 0
    /\ results' = <<>>
    /\ logged' = 0
    /\ done' = <<>>

RunReset == workers' = 0 /\ LocalsReset

Init ==
    /\ all_args = <<>>
    /\ num_of_process = 1
    /\ pc = "idle"
    /\ workers = 0
    /\ pool = "none"
    /\ mgr = "none"
    /\ shutdown = FALSE
    /\ fs = <<>>
    /\ resultq = <<>>
    /\ nreg = 0
    /\ cb = [t \in Threads |-> NoCb]
    /\ progress = 0
    /\ results = <<>>
    /\ logged = 0
    /\ done = <<>>
    /\ call = NoCall
    /\ outcome = Returned(<<>>)

\* ---------------------------------------------------------------- registry
\* show_args(): the registered tuples, in order.
show_args == all_args

\* any(not isinstance(args, tuple) for args in all_args)
HasNonTuple(T) == \E i \in 1..Len(T) : ~T[i].istuple

\* Variant: the new tuple is put in front of the list.
AddArgsListFront(P, v) == <<Tup(v)>> \o P

\* add_args(*args): the list after self.__all_args.append(args).
AddArgsList(P, v) == Append(P, Tup(v))

\* Variant: overwrite mode does not clear.
ClearedForNever(P, mode) == P

\* set_allargs: the list after the clear of overwrite mode ('w').
ClearedFor(P, mode) == IF mode = "w" THEN <<>> ELSE P

\* set_allargs: the list after extend(list(all_args)).
Extended(P, T) == P \o T

\* Variant: the content check is missing.
SetAllargsNeverRaises(T) == FALSE

\* set_allargs(all_args, mode) on registry P: does it raise TypeError, and
\* the list and the cached count it leaves behind.
SetAllargsRaises(T) == HasNonTuple(T)

SetAllargsList(P, T, mode) ==
    IF SetAllargsRaises(T) THEN ClearedFor(P, mode)
    ELSE Extended(ClearedFor(P, mode), T)

SetAllargsNum(P, num, T, mode) ==
    IF SetAllargsRaises(T) THEN num ELSE Len(SetAllargsList(P, T, mode))

\* set_processes: [tuple()] * n
UniformList(n) == [i \in 1..n |-> Tup(<<>>)]

add_args(v) ==
    /\ pc = "idle"
    /\ Len(all_args) < MaxUnits
    /\ call' = [NoCall EXCEPT !.op = "add_args", !.pre = all_args,
                              !.prenum = num_of_process, !.vals = v]
    /\ all_args' = AddArgsList(all_args, v)
    /\ num_of_process' = Len(all_args')
    /\ outcome' = Returned(<<>>)
    /\ RunReset
    /\ UNCHANGED pc

set_allargs(T, mode) ==
    /\ pc = "idle"
    /\ Len(ClearedFor(all_args, mode)) + Len(T) <= MaxUnits
    /\ call' = [NoCall EXCEPT !.op = "set_allargs", !.pre = all_args,
                              !.prenum = num_of_process, !.bulk = T,
                              !.mode = mode]
    /\ all_args' = SetAllargsList(all_args, T, mode)
    /\ num_of_process' = SetAllargsNum(all_args, num_of_process, T, mode)
    /\ outcome' = IF SetAllargsRaises(T) THEN Raised("TypeError")
                  ELSE Returned(<<>>)
    /\ RunReset
    /\ UNCHANGED pc

\* Variant: the empty tuples are added to the registered ones.
set_processes_keep(n) ==
    /\ pc = "idle"
    /\ Len(all_args) + n <= MaxUnits
    /\ call' = [NoCall EXCEPT !.op = "set_processes", !.pre = all_args,
                              !.prenum = num_of_process, !.n = n]
    /\ num_of_process' = n
    /\ all_args' = all_args \o UniformList(num_of_process')
    /\ outcome' = Returned(<<>>)
    /\ RunReset
    /\ UNCHANGED pc

set_processes(n) ==
    /\ pc = "idle"
    /\ call' = [NoCall EXCEPT !.op = "set_processes", !.pre = all_args,
                              !.prenum = num_of_process, !.n = n]
    /\ num_of_process' = n
    /\ all_args' = UniformList(num_of_process')
    /\ outcome' = Returned(<<>>)
    /\ RunReset
    /\ UNCHANGED pc

\* --------------------------------------------------------------------- run
NewFuture(a) == [args |-> a, state |-> "PENDING", outcome |-> "none",
                 cbreg |-> FALSE]
Units == 1..Len(fs)
Executing(i) == fs[i].state = "RUNNING" /\ fs[i].outcome = "none"
AllFinished == \A i \in Units : fs[i].state = "FINISHED"

\* Variant: set_allargs is called whether or not an override was given.
HasOverrideAlways(ov) == TRUE

\* line 83: all_args is not None
HasOverride(ov) == ov

\* run(workers, all_args), lines 82-84: the override is registered with
\* set_allargs in its default mode 'w'; a TypeError leaves run() at once.
RunCall(w, T, ov) ==
    /\ pc = "idle"
    /\ call' = IF ov
                 THEN [NoCall EXCEPT !.op = "run", !.bulk = T, !.mode = "w",
                                     !.override = TRUE]
                 ELSE [NoCall EXCEPT !.op = "run", !.pre = all_args,
                                     !.prenum = num_of_process]
    /\ LocalsReset
    /\ IF HasOverride(ov)
         THEN /\ all_args' = SetAllargsList(all_args, T, "w")
              /\ num_of_process' = SetAllargsNum(all_args, num_of_process, T, "w")
              /\ IF SetAllargsRaises(T)
                   THEN /\ outcome' = Raised("TypeError")
                        /\ pc' = "idle"
                        /\ workers' = 0
                   ELSE /\ outcome' = Pending
                        /\ pc' = "enter"
                        /\ workers' = w
         ELSE /\ UNCHANGED regvars
              /\ outcome' = Pending
              /\ pc' = "enter"
              /\ workers' = w

\* line 86, __enter__: the pool of `workers` slots is acquired.
EnterPool ==
    /\ pc = "enter"
    /\ pool' = "open"
    /\ pc' = "submit"
    /\ UNCHANGED <<regvars, workers, mgr, shutdown, fs, resultq, nreg, cb,
                   progress, results, logged, call, outcome,
                   done>>

\* Variant: the registry is walked from its end.
SubmitArgsReversed(k) == all_args[Len(all_args) + 1 - k]

\* line 88, for args in self.__all_args: the tuple of the k-th submit.
SubmitArgs(k) == all_args[k]

\* line 88: e.submit(self.__f, *args) for the next tuple of the registry;
\* the first submit starts the manager thread.
Submit ==
    /\ pc = "submit"
    /\ Len(fs) < Len(all_args)
    /\ fs' = Append(fs, NewFuture(SubmitArgs(Len(fs) + 1)))
    /\ mgr' = IF mgr = "none" THEN "idle" ELSE mgr
    /\ UNCHANGED <<regvars, pc, workers, pool, shutdown, resultq, nreg,
                   cb, progress, results, logged, call, outcome,
                   done>>

\* lines 90-91: pbar = tqdm(total=len(fs)); results = []
StartAggregation ==
    /\ pc = "submit"
    /\ Len(fs) = Len(all_args)
    /\ progress' = 0
    /\ results' = <<>>
    /\ pc' = "callbacks"
    /\ UNCHANGED <<regvars, workers, pool, mgr, shutdown, fs, resultq,
                   nreg, cb, logged, call, outcome,
                   done>>

\* Variant: a callback added to a finished future is kept, never called.
CallsNowNever(f) == FALSE

\* Future.add_done_callback(update) under the future's lock: the callback is
\* kept for the manager thread unless the future is FINISHED already, in
\* which case it is called now, by the caller's thread.
CallsNow(f) == f.state = "FINISHED"

\* line 104: f.add_done_callback(update) for the next future of fs.
Register ==
    /\ pc = "callbacks"
    /\ nreg < Len(fs)
    /\ cb["main"] = NoCb
    /\ LET i == nreg + 1 IN
         IF CallsNow(fs[i])
           THEN /\ cb' = [cb EXCEPT !["main"] = [unit |-> i, stage |-> "called"]]
                /\ UNCHANGED fs
           ELSE /\ fs' = [fs EXCEPT ![i].cbreg = TRUE]
                /\ UNCHANGED cb
    /\ nreg' = nreg + 1
    /\ UNCHANGED <<regvars, pc, workers, pool, mgr, shutdown, resultq,
                   progress, results, logged, call, outcome,
                   done>>

\* line 96, update(): pbar.update(1), on thread t.
UpdateProgress(t) ==
    /\ cb[t].stage = "called"
    /\ progress' = progress + 1
    /\ cb' = [cb EXCEPT ![t].stage = "check"]
    /\ UNCHANGED <<regvars, pc, workers, pool, mgr, shutdown, fs,
                   resultq, nreg, results, logged, call, outcome,
                   done>>

\* Variant: the callback does not look at the future's exception.
CallbackNeverRaises(f) == FALSE

\* lines 98-100: future.exception() is not None, and update() raises it.
CallbackRaises(f) == f.outcome = "exc"

\* lines 98-102, update(): a failed future makes the callback raise, and the
\* library's caller of the callback catches and logs that exception; the
\* result of a successful future is appended to results.
UpdateFinish(t) ==
    /\ cb[t].stage = "check"
    /\ IF CallbackRaises(fs[cb[t].unit])
         THEN /\ logged' = logged + 1
              /\ UNCHANGED results
         ELSE /\ results' = Append(results, cb[t].unit)
              /\ UNCHANGED logged
    /\ cb' = [cb EXCEPT ![t] = NoCb]
    /\ UNCHANGED <<regvars, pc, workers, pool, mgr, shutdown, fs,
                   resultq, nreg, progress, call, outcome,
                   done>>

\* line 105: futures.wait(fs) returns once every future is FINISHED.
Wait ==
    /\ pc = "callbacks"
    /\ nreg = Len(fs)
    /\ cb["main"] = NoCb
    /\ AllFinished
    /\ pc' = "exit"
    /\ UNCHANGED <<regvars, workers, pool, mgr, shutdown, fs, resultq,
                   nreg, cb, progress, results, logged, call, outcome,
                   done>>

\* line 86, __exit__: shutdown(wait=True) flags the executor ...
ExitPool ==
    /\ pc = "exit"
    /\ shutdown' = TRUE
    /\ pc' = "join"
    /\ UNCHANGED <<regvars, workers, pool, mgr, fs, resultq, nreg, cb,
                   progress, results, logged, call, outcome,
                   done>>

\* Variant: shutdown(wait=False), the manager thread is not joined.
JoinedNoWait == TRUE

\* Variant: the join takes a manager thread for granted.
JoinedStarted == mgr = "exited"

\* ... and joins the manager thread, if one was started; a pool that never
\* got a unit has neither a manager thread nor worker processes to release.
Joined == mgr \in {"none", "exited"}

Join ==
    /\ pc = "join"
    /\ Joined
    /\ pool' = IF mgr = "none" THEN "closed" ELSE pool
    /\ pc' = "return"
    /\ UNCHANGED <<regvars, workers, mgr, shutdown, fs, resultq, nreg,
                   cb, progress, results, logged, call, outcome,
                   done>>

\* line 106: return results
Return ==
    /\ pc = "return"
    /\ outcome' = Returned(results)
    /\ pc' = "returned"
    /\ UNCHANGED <<regvars, workers, pool, mgr, shutdown, fs, resultq,
                   nreg, cb, progress, results, logged, call,
                   done>>

\* The caller goes on with the returned list; the frame of run() with its
\* locals and the executor object are gone.
Resume ==
    /\ pc = "returned"
    /\ pc' = "idle"
    /\ RunReset
    /\ UNCHANGED <<regvars, call, outcome>>

\* ------------------------------------------------- the executor's own steps
\* Variant: the pool does not bound the units it executes at once.
SlotFreeAlways == TRUE

\* Variant: the pool keeps one of its slots unused.
SlotFreeButOne == Cardinality({j \in Units : Executing(j)}) < workers - 1

\* ProcessPoolExecutor(max_workers=workers): one unit per worker process.
SlotFree == Cardinality({j \in Units : Executing(j)}) < workers

\* A free slot of the pool takes the oldest queued unit.
WorkerStart(i) ==
    /\ pool = "open"
    /\ fs[i].state = "PENDING"
    /\ \A j \in 1..(i - 1) : fs[j].state # "PENDING"
    /\ SlotFree
    /\ fs' = [fs EXCEPT ![i].state = "RUNNING"]
    /\ UNCHANGED <<regvars, pc, workers, pool, mgr, shutdown, resultq,
                   nreg, cb, progress, results, logged, call, outcome,
                   done>>

\* self.__f(*args) returns or raises in its worker process; the result item
\* is queued for the manager thread.
WorkerFinish(i, o) ==
    /\ Executing(i)
    /\ fs' = [fs EXCEPT ![i].outcome = o]
    /\ resultq' = Append(resultq, i)
    /\ done' = Append(done, i)
    /\ UNCHANGED <<regvars, pc, workers, pool, mgr, shutdown, nreg, cb,
                   progress, results, logged, call, outcome>>

\* The manager thread takes a result item: set_result / set_exception marks
\* the future FINISHED and then invokes the callbacks registered on it.
MgrFinish ==
    /\ mgr = "idle"
    /\ cb["mgr"] = NoCb
    /\ resultq # <<>>
    /\ LET i == Head(resultq) IN
         /\ fs' = [fs EXCEPT ![i].state = "FINISHED"]
         /\ cb' = IF fs[i].cbreg
                    THEN [cb EXCEPT !["mgr"] = [unit |-> i, stage |-> "called"]]
                    ELSE cb
    /\ resultq' = Tail(resultq)
    /\ UNCHANGED <<regvars, pc, workers, pool, mgr, shutdown, nreg,
                   progress, results, logged, call, outcome,
                   done>>

\* The manager thread ends once the executor is shut down and no work item
\* is pending; it joins the worker processes on its way out.
MgrExit ==
    /\ mgr = "idle"
    /\ cb["mgr"] = NoCb
    /\ shutdown
    /\ AllFinished
    /\ mgr' = "exited"
    /\ pool' = "closed"
    /\ UNCHANGED <<regvars, pc, workers, shutdown, fs, resultq,
                   nreg, cb, progress, results, logged, call, outcome,
                   done>>



Next ==
    \/ \E v \in ArgVals : add_args(v)
    \/ \E T \in Bulks, mode \in {"w", "a"} : set_allargs(T, mode)
    \/ \E n \in 0..MaxUnits : set_processes(n)
    \/ \E w \in 1..MaxWorkers, T \in Bulks : RunCall(w, T, TRUE)
    \/ \E w \in 1..MaxWorkers : RunCall(w, <<>>, FALSE)
    \/ EnterPool
    \/ Submit
    \/ StartAggregation
    \/ Register
    \/ \E t \in Threads : UpdateProgress(t)
    \/ \E t \in Threads : UpdateFinish(t)
    \/ Wait
    \/ ExitPool
    \/ Join
    \/ Return
    \/ Resume
    \/ \E i \in Units : WorkerStart(i)
    \/ \E i \in Units, o \in {"ok", "exc"} : WorkerFinish(i, o)
    \/ MgrFinish
    \/ MgrExit

Spec == Init /\ [][Next]_vars

\* ------------------------------------------------ runs under fair scheduling
\* The steps of the caller's thread inside run(), of the manager thread and
\* of the worker processes.
MainStep ==
    \/ EnterPool
    \/ Submit
    \/ StartAggregation
    \/ Register
    \/ UpdateProgress("main")
    \/ UpdateFinish("main")
    \/ Wait
    \/ ExitPool
    \/ Join
    \/ Return

MgrStep ==
    \/ MgrFinish
    \/ UpdateProgress("mgr")
    \/ UpdateFinish("mgr")
    \/ MgrExit

WorkerStep ==
    \/ \E i \in Units : WorkerStart(i)
    \/ \E i \in Units, o \in {"ok", "exc"} : WorkerFinish(i, o)

\* A new object after set_processes(n): n units without arguments.
RunInit ==
    /\ \E n \in 0..MaxUnits :
         /\ num_of_process = n
         /\ all_args = UniformList(n)
         /\ call = [NoCall EXCEPT !.op = "set_processes", !.n = n]
    /\ outcome = Returned(<<>>)
    /\ pc = "idle"
    /\ workers = 0
    /\ pool = "none"
    /\ mgr = "none"
    /\ shutdown = FALSE
    /\ fs = <<>>
    /\ resultq = <<>>
    /\ nreg = 0
    /\ cb = [t \in Threads |-> NoCb]
    /\ progress = 0
    /\ results = <<>>
    /\ logged = 0
    /\ done = <<>>

\* Runs of the registered units, one after the other, without override.
RunNext ==
    \/ \E w \in 1..MaxWorkers : RunCall(w, <<>>, FALSE)
    \/ MainStep
    \/ MgrStep
    \/ WorkerStep
    \/ Resume

\* Threads and worker processes are scheduled fairly and every unit of work
\* finishes, by returning or raising.
LiveSpec ==
    /\ RunInit
    /\ [][RunNext]_vars
    /\ WF_vars(MainStep)
    /\ WF_vars(MgrStep)
    /\ WF_vars(WorkerStep)

\* ------------------------------------------------------------------ claims
RunReturned == pc = "returned"
SomeFailed == \E i \in Units : fs[i].outcome = "exc"
AllSucceeded == \A i \in Units : fs[i].outcome = "ok"
Range(q) == {q[k] : k \in 1..Len(q)}

\* C1: a run of n >= 2 units in which at least one unit raises never returns
\* a result list, full or partial: the failure reaches the caller instead.
C1_FailFast == ~(RunReturned /\ Len(fs) >= 2 /\ SomeFailed)

\* C2: when every unit succeeds, run() returns exactly one result per unit
\* (n results, none lost or duplicated) and the progress bar has received
\* exactly n advance events by the time run() returns.
C2_AllResults ==
    (RunReturned /\ AllSucceeded) =>
        /\ Len(outcome.value) = Len(all_args)
        /\ Range(outcome.value) = 1..Len(all_args)
        /\ progress = Len(all_args)

C2_Witness ==
    /\ RunReturned
    /\ AllSucceeded
    /\ Len(fs) = MaxUnits
    /\ outcome.value[1] # 1

\* C3: set_allargs with a non-tuple element raises the shape error and
\* leaves the tuple list and the cached count as they were before the call,
\* in overwrite and in append mode.
C3_FailedBulkUnchanged ==
    (call.op = "set_allargs" /\ HasNonTuple(call.bulk)) =>
        /\ outcome = Raised("TypeError")
        /\ all_args = call.pre
        /\ num_of_process = call.prenum

\* C4: after set_allargs(T, 'w') with tuples only, show_args() is exactly T
\* in the given order; after set_allargs(T, 'a') it is the prior content
\* followed by T.
C4_BulkThenSnapshot ==
    (call.op = "set_allargs" /\ ~HasNonTuple(call.bulk)) =>
        /\ outcome = Returned(<<>>)
        /\ call.mode = "w" => show_args = call.bulk
        /\ call.mode = "a" => show_args = call.pre \o call.bulk

C4_Witness ==
    /\ call.op = "set_allargs"
    /\ call.mode = "w"
    /\ Len(call.pre) >= 1
    /\ Len(call.bulk) = 2
    /\ call.bulk[1] # call.bulk[2]
    /\ ~HasNonTuple(call.bulk)
    /\ outcome = Returned(<<>>)

\* C5: after any sequence of add_args, set_allargs (successful or failing),
\* set_processes and run calls, the length of the registry equals the cached
\* unit count.
C5_LengthIsCount == call.op # "none" => Len(all_args) = num_of_process

\* C6: set_processes(n), n >= 0, leaves a registry of exactly n empty tuples,
\* with nothing of the prior content.
C6_UniformCount ==
    call.op = "set_processes" =>
        /\ Len(all_args) = call.n
        /\ \A i \in 1..Len(all_args) : all_args[i] = Tup(<<>>)

C6_Witness ==
    /\ call.op = "set_processes"
    /\ call.n = 2
    /\ Len(call.pre) = MaxUnits
    /\ \E i \in 1..Len(call.pre) : call.pre[i] # Tup(<<>>)
    /\ Len(all_args) = 2

\* C7: add_args(*args) adds exactly one tuple, built from the given values,
\* at the end: the length grows by one, the cached count is the new length
\* and the tuples registered before keep their values and positions.
C7_AppendOne ==
    call.op = "add_args" =>
        /\ Len(all_args) = Len(call.pre) + 1
        /\ all_args[Len(all_args)] = Tup(call.vals)
        /\ \A i \in 1..Len(call.pre) : all_args[i] = call.pre[i]
        /\ num_of_process = Len(all_args)

C7_Witness ==
    /\ call.op = "add_args"
    /\ Len(call.pre) >= 1
    /\ call.pre[1] # Tup(call.vals)
    /\ Len(all_args) = Len(call.pre) + 1

\* C8: when run() hands control back to the caller, by returning or by
\* raising, the pool it acquired is released: no pool is open, the manager
\* thread has ended, no unit is executing or awaiting the manager and no
\* completion callback is in progress.
PoolTornDown ==
    /\ pool # "open"
    /\ mgr \in {"none", "exited"}
    /\ \A i \in Units : ~Executing(i)
    /\ resultq = <<>>
    /\ \A t \in Threads : cb[t] = NoCb

C9_OverrideFirst ==
    (call.op = "run" /\ call.override) =>
        IF HasNonTuple(call.bulk)
          THEN /\ outcome = Raised("TypeError")
               /\ pc = "idle"
               /\ pool = "none"
               /\ fs = <<>>
          ELSE /\ all_args = call.bulk
               /\ Len(fs) <= Len(call.bulk)
               /\ \A i \in Units : fs[i].args = call.bulk[i]

C9_Witness ==
    /\ call.op = "run"
    /\ call.override
    /\ HasNonTuple(call.bulk)
    /\ Len(call.bulk) = 2
    /\ call.bulk[1].istuple
    /\ outcome = Raised("TypeError")

\* C10: a run on an empty registry acquires the pool, submits nothing, is
\* not held up at the release of the pool, and returns an empty list with
\* zero progress events and the pool released.
C10_EmptyRun ==
    (call.op = "run" /\ pc # "idle" /\ Len(all_args) = 0) =>
        /\ fs = <<>>
        /\ progress = 0
        /\ pc \in {"submit", "callbacks", "exit", "join"} => pool = "open"
        /\ pc = "join" => Joined
        /\ pc \in {"return", "returned"} => pool = "closed"
        /\ pc = "returned" => outcome = Returned(<<>>)

C10_Witness ==
    /\ RunReturned
    /\ Len(all_args) = 0
    /\ outcome.value = <<>>
    /\ pool = "closed"
    /\ progress = 0

\* First position of unit u in the sequence q.
Pos(q, u) == CHOOSE k \in 1..Len(q) : q[k] = u

\* C11: the result list is in completion order: of two units whose results
\* are in the list, the one that finished first has its result first,
\* whichever thread ran its completion callback.
C11_CompletionOrder ==
    \A a, b \in Range(results) :
        Pos(done, a) < Pos(done, b) => Pos(results, a) < Pos(results, b)

\* C12: the result list and the progress counter have one aggregation
\* authority: in no state are two update() callbacks in progress at once,
\* one on the caller's thread and one on the manager thread.
C12_OneHandlerAtATime == ~(cb["main"] # NoCb /\ cb["mgr"] # NoCb)

\* The state of the run: Idle, Submitting, Awaiting, Completed (run()
\* returned its list) or Aborted (run() raised a unit's failure).
RunState ==
    CASE pc = "idle" /\ call.op = "run" /\ outcome.exc = "WorkerFailure"
             -> "Aborted"
      [] pc = "idle" -> "Idle"
      [] pc \in {"enter", "submit"} -> "Submitting"
      [] pc \in {"callbacks", "exit", "join", "return"} -> "Awaiting"
      [] pc = "returned" -> "Completed"

\* A completion callback has seen a failed unit.
FailureObserved == logged > 0

\* C13: a run ends in Completed only if all its units succeeded, and is
\* Aborted as soon as the first failure is observed: it is never Completed,
\* nor still Awaiting, with a failure observed.
C13_RunStates ==
    /\ RunState = "Completed" => AllSucceeded
    /\ FailureObserved => RunState = "Aborted"

InRun == call.op = "run" /\ pc # "idle"
Submitted == pc \notin {"idle", "enter", "submit"}

\* C14: run() builds one unit per tuple of the registry, in registry order
\* and each exactly once: the i-th submitted unit carries the i-th tuple, no
\* more units are submitted than there are tuples, all of them are once the
\* submission is over, and no unit, failed or not, is executed twice.
C14_OneUnitPerTuple ==
    InRun =>
        /\ Len(fs) <= Len(all_args)
        /\ \A i \in Units : fs[i].args = all_args[i]
        /\ Submitted => Len(fs) = Len(all_args)
        /\ \A j, k \in 1..Len(done) : done[j] = done[k] => j = k
        /\ Range(done) \subseteq Units

C14_Witness ==
    /\ pc = "returned"
    /\ Len(fs) >= 2
    /\ fs[1].args # fs[2].args
    /\ fs[1].outcome = "exc"
    /\ Len(done) = Len(fs)

\* C15: every unit is submitted before the caller registers callbacks or
\* waits for a completion, and at every moment the number of units executing
\* at once is at most the workers argument of run().
C15_EagerSubmitBoundedPool ==
    InRun =>
        /\ (nreg > 0 \/ pc \in {"exit", "join", "return", "returned"}) =>
               Len(fs) = Len(all_args)
        /\ pc \in {"enter", "submit"} => nreg = 0 /\ progress = 0
        /\ Cardinality({i \in Units : Executing(i)}) <= workers

C15_Witness ==
    /\ pc = "callbacks"
    /\ Len(fs) = Len(all_args)
    /\ Cardinality({i \in Units : Executing(i)}) = workers
    /\ \E i \in Units : fs[i].state = "PENDING"

\* C16: a run without an override only reads the registry: the tuple list
\* and the cached count stay what they were before the call, during the run
\* and after it, whether the units succeed or fail.
C16_RegistryUntouched ==
    (call.op = "run" /\ ~call.override) =>
        /\ all_args = call.pre
        /\ num_of_process = call.prenum

C16_Witness ==
    /\ pc = "returned"
    /\ ~call.override
    /\ Len(call.pre) >= 2
    /\ SomeFailed
    /\ all_args = call.pre

\* C18: when run() returns no unit is outstanding: every submitted unit is
\* FINISHED and its callback has run, once: as many progress events as units,
\* every successful unit once in the list, every failed one logged once,
\* and no callback still in progress.
C18_NothingOutstanding ==
    RunReturned =>
        /\ AllFinished
        /\ \A t \in Threads : cb[t] = NoCb
        /\ progress = Len(fs)
        /\ Len(results) + logged = Len(fs)
        /\ \A i \in Units : fs[i].outcome = "ok" => i \in Range(results)
        /\ \A j, k \in 1..Len(results) : results[j] = results[k] => j = k

C18_Witness ==
    /\ RunReturned
    /\ Len(fs) >= 2
    /\ fs[done[Len(done)]].cbreg
    /\ \E i \in Units : ~fs[i].cbreg
    /\ results # <<>>
    /\ results[Len(results)] = done[Len(done)]

\* C19: the list run() returns has exactly one entry for each unit that
\* succeeded and none for a unit that raised, and the progress bar has
\* advanced once for every unit, the failed ones included.
Succeeded == {i \in Units : fs[i].outcome = "ok"}

====
